---------------------------- MODULE Spec2Model ----------------------------
(***************************************************************************)
(* Model of stack-overflow.py: an Apache Beam pipeline that extracts the   *)
(* links of StackOverflow answers, groups the answers by URL, probes each  *)
(* URL once with a HEAD request and writes two ranked JSON documents       *)
(* (all responses, failures only).                                         *)
(*                                                                         *)
(* Text (answer bodies, URLs) is modelled as sequences of one-character    *)
(* strings, so that the regular expression, urlparse and endswith are      *)
(* computed on characters.  A Python Optional is a sequence of length 0    *)
(* (None) or 1.  A PCollection is a bag.                                   *)
(***************************************************************************)
EXTENDS Bags, FiniteSets, Integers, Sequences, TLC

VARIABLES
    input,      \* the rows returned by the BigQuery read (a set of records)
    pending,    \* answer_ids of the rows ExtractURLs has not processed yet
    pairs,      \* PCollection of (url, AnswerWithURL) pairs out of ExtractURLs
    groups,     \* PCollection of (url, [AnswerWithURL]) out of GroupByURL
    heads,      \* the HEAD requests issued so far, each with its outcome
    responses,  \* PCollection of AnswerURLCheckResult out of CheckURLAlive
    docs        \* per output file, the documents handed to WriteToText

vars == <<input, pending, pairs, groups, heads, responses, docs>>

\* The most rows one run reads (the query's "limit N").
MaxRecords == 3

(***************************************************************************)
(* Text                                                                    *)
(***************************************************************************)
Quote == "\""

AHrefOpen ==
    <<"<","a"," ","h","r","e","f","=","\"">>

Http ==
    <<"h","t","t","p">>

ExcludedSuffix ==
    <<"s","t","a","c","k","o","v","e","r","f","l","o","w",".","c","o","m">>

UrlExample ==
    <<"h","t","t","p","s",":","/","/","e","x","a","m","p","l","e",".","c","o","m","/",
      "x">>

UrlSelf ==
    <<"h","t","t","p","s",":","/","/","s","t","a","c","k","o","v","e","r","f","l","o",
      "w",".","c","o","m","/","q","/","9">>

UrlSelfPort ==
    <<"h","t","t","p","s",":","/","/","s","t","a","c","k","o","v","e","r","f","l","o",
      "w",".","c","o","m",":","4","4","3","/","q","/","9">>

UrlDocs ==
    <<"h","t","t","p",":","/","/","d","o","c","s",".","i","o">>

UrlMalformed ==
    <<"h","t","t","p",":","/","/","[","b","a","d">>

FtpAnchor ==
    <<"<","a"," ","h","r","e","f","=","\"","f","t","p",":","/","/","f",".","i","o","\"",
      ">">>

Anchor(url) == AHrefOpen \o url \o <<Quote, ">">>

SubSeqFrom(s, i) == SubSeq(s, i, Len(s))

\* s[i..] starts with p
StartsWithAt(s, i, p) ==
    /\ i >= 1
    /\ i + Len(p) - 1 <= Len(s)
    /\ \A k \in 1..Len(p) : s[i + k - 1] = p[k]

\* str.endswith
endswith(s, suffix) ==
    /\ Len(suffix) <= Len(s)
    /\ \A k \in 1..Len(suffix) : s[Len(s) - Len(suffix) + k] = suffix[k]

\* The least index >= i at which s holds a character of cs; Len(s)+1 if none.
RECURSIVE FindAny(_, _, _)
FindAny(s, i, cs) ==
    IF i > Len(s) THEN Len(s) + 1
    ELSE IF s[i] \in cs THEN i
    ELSE FindAny(s, i + 1, cs)

(***************************************************************************)
(* re.finditer(r'<a href="(https?[^"]+)', body)                            *)
(***************************************************************************)
\* The last index of the run of non-quote characters that starts at j
\* (j - 1 when s[j] is a quote or j is past the end): what [^"]+ consumes.
RunEnd(s, j) == FindAny(s, j, {Quote}) - 1

\* The end of the match that starts at i, or 0 when the pattern does not match
\* there: the literal prefix, "http", an optional "s" (tried first, then given
\* back), and at least one character that is not a quote.
MatchEndAt(body, i) ==
    LET g == i + Len(AHrefOpen)
        a == g + Len(Http)
    IN  IF ~StartsWithAt(body, i, AHrefOpen \o Http) THEN 0
        ELSE IF a <= Len(body) /\ body[a] = "s" /\ RunEnd(body, a + 1) >= a + 1
             THEN RunEnd(body, a + 1)
        ELSE IF RunEnd(body, a) >= a THEN RunEnd(body, a)
        ELSE 0

\* group(1) of every match, left to right, matches not overlapping.
RECURSIVE finditer(_, _)
finditer(body, pos) ==
    IF pos > Len(body) THEN <<>>
    ELSE LET e == MatchEndAt(body, pos)
         IN  IF e = 0 THEN finditer(body, pos + 1)
             ELSE <<SubSeq(body, pos + Len(AHrefOpen), e)>> \o finditer(body, e + 1)

(***************************************************************************)
(* urllib.parse.urlparse, as far as .netloc and its ValueError go          *)
(***************************************************************************)
Lower ==
    {"a","b","c","d","e","f","g","h","i","j","k","l","m",
     "n","o","p","q","r","s","t","u","v","w","x","y","z"}

Upper ==
    {"A","B","C","D","E","F","G","H","I","J","K","L","M",
     "N","O","P","Q","R","S","T","U","V","W","X","Y","Z"}

Digits == {"0","1","2","3","4","5","6","7","8","9"}

SchemeChars == Lower \cup Upper \cup Digits \cup {"+", "-", "."}

\* The text after "scheme:" when the url starts with a scheme, else the url.
AfterScheme(url) ==
    LET c == FindAny(url, 1, {":"})
    IN  IF /\ c > 1
           /\ c <= Len(url)
           /\ url[1] \in Lower \cup Upper
           /\ \A k \in 1..(c - 1) : url[k] \in SchemeChars
        THEN SubSeqFrom(url, c + 1)
        ELSE url

\* urlparse(url): netloc is the text between "//" and the first of / ? #;
\* a netloc with one square bracket and not the other raises ValueError.
urlparse(url) ==
    LET rest   == AfterScheme(url)
        netloc == IF StartsWithAt(rest, 1, <<"/", "/">>)
                  THEN SubSeq(rest, 3, FindAny(rest, 3, {"/", "?", "#"}) - 1)
                  ELSE <<>>
        open   == \E k \in 1..Len(netloc) : netloc[k] = "["
        close  == \E k \in 1..Len(netloc) : netloc[k] = "]"
    IN  [raised |-> open # close, netloc |-> netloc]

(***************************************************************************)
(* The rows the query can return                                           *)
(***************************************************************************)
Row(id, title, score, body) ==
    [answer_id |-> id, question_title |-> title, score |-> score, body |-> body]

Corpus ==
    { Row(1, "Q1", 10, Anchor(UrlExample) \o Anchor(UrlSelf)),
      Row(2, "Q2", 5, Anchor(UrlExample) \o FtpAnchor),
      Row(3, "Q3", 5, Anchor(UrlDocs) \o Anchor(UrlExample) \o Anchor(UrlDocs)),
      Row(4, "Q4", -3, Anchor(UrlSelfPort)),
      Row(5, "Q5", -3, AHrefOpen \o UrlMalformed) }

(***************************************************************************)
(* ExtractURLsFromAnswer                                                   *)
(***************************************************************************)
PermalinkPrefix ==
    <<"h","t","t","p","s",":","/","/">> \o ExcludedSuffix \o <<"/","a","/">>

DigitChar(d) ==
    CASE d = 0 -> "0" [] d = 1 -> "1" [] d = 2 -> "2" [] d = 3 -> "3" [] d = 4 -> "4"
      [] d = 5 -> "5" [] d = 6 -> "6" [] d = 7 -> "7" [] d = 8 -> "8" [] d = 9 -> "9"

\* "{}".format(n) for n >= 0
RECURSIVE Decimal(_)
Decimal(n) ==
    IF n < 10 THEN <<DigitChar(n)>> ELSE Decimal(n \div 10) \o <<DigitChar(n % 10)>>

AnswerWithURL(element) ==
    [score          |-> element.score,
     answer_id      |-> element.answer_id,
     question_title |-> element.question_title,
     answer_url     |-> PermalinkPrefix \o Decimal(element.answer_id)]

\* "if url in seen_urls: continue", always false: no dedup inside a record.
AlreadySeenNever(url, seen_urls) == FALSE

\* if url in seen_urls: continue
AlreadySeen(url, seen_urls) == url \in seen_urls

\* The try block: urlparse succeeded and the netloc ends with stackoverflow.com.
\* A ValueError of urlparse is caught and the URL kept.
SkipsURL(url) ==
    LET parsed_url == urlparse(url)
    IN  ~parsed_url.raised /\ endswith(parsed_url.netloc, ExcludedSuffix)

\* The loop over the matches; yields the (url, AnswerWithURL) pairs.
RECURSIVE ExtractLoop(_, _, _)
ExtractLoop(element, matches, seen_urls) ==
    IF matches = <<>> THEN <<>>
    ELSE LET url  == Head(matches)
             rest == Tail(matches)
         IN  IF AlreadySeen(url, seen_urls) THEN ExtractLoop(element, rest, seen_urls)
             ELSE IF SkipsURL(url)
                  THEN ExtractLoop(element, rest, seen_urls \cup {url})
             ELSE <<[url |-> url, value |-> AnswerWithURL(element)]>>
                  \o ExtractLoop(element, rest, seen_urls \cup {url})

ExtractURLsFromAnswer(element) ==
    ExtractLoop(element, finditer(element.body, 1), {})

(***************************************************************************)
(* PCollections: bags, handed to a combiner in any order                   *)
(***************************************************************************)
RECURSIVE SeqToBag(_)
SeqToBag(s) ==
    IF s = <<>> THEN EmptyBag ELSE SetToBag({Head(s)}) (+) SeqToBag(Tail(s))

\* Bag B cut down to its elements in set S
Restrict(B, S) == [x \in S \cap BagToSet(B) |-> CopiesIn(x, B)]

\* Every order in which the elements of a bag can arrive
RECURSIVE Orders(_)
Orders(B) ==
    IF BagToSet(B) = {} THEN {<<>>}
    ELSE UNION { { <<x>> \o s : s \in Orders(B (-) SetToBag({x})) } : x \in BagToSet(B) }

(***************************************************************************)
(* combine_pcollection_to_list and the way the engine calls it             *)
(*                                                                         *)
(* The function receives an iterable whose elements are pipeline elements  *)
(* or lists it returned before.  An element is [isList |-> FALSE, v |->    *)
(* <<x>>]; a list is [isList |-> TRUE, v |-> its elements].                *)
(***************************************************************************)
Element(x) == [isList |-> FALSE, v |-> <<x>>]

List(xs) == [isList |-> TRUE, v |-> xs]

\* A combine function that forgets the lists it is handed
RECURSIVE CombineDroppingLists(_)
CombineDroppingLists(els) ==
    IF els = <<>> THEN <<>>
    ELSE LET el == Head(els)
         IN  (IF el.isList THEN <<>> ELSE el.v) \o CombineDroppingLists(Tail(els))

\* for el in els: ret.extend(el) if isinstance(el, list) else ret.append(el)
RECURSIVE combine_pcollection_to_list(_)
combine_pcollection_to_list(els) ==
    IF els = <<>> THEN <<>>
    ELSE LET el == Head(els)
         IN  (IF el.isList THEN el.v ELSE <<el.v[1]>>)
             \o combine_pcollection_to_list(Tail(els))

\* The accumulators the engine may build from elements arriving in order s: it
\* cuts s into bundles and either leaves an element as it arrived or replaces
\* a bundle by the list the combine function makes of it (a pre-combine).
RECURSIVE Bundlings(_)
Bundlings(s) ==
    IF s = <<>> THEN {<<>>}
    ELSE { <<Element(Head(s))>> \o rest : rest \in Bundlings(Tail(s)) }
         \cup UNION { { <<List(combine_pcollection_to_list(
                                  [k \in 1..i |-> Element(s[k])]))>> \o rest :
                          rest \in Bundlings(SubSeqFrom(s, i + 1)) } :
                      i \in 1..Len(s) }

Accumulators(B) == UNION { Bundlings(s) : s \in Orders(B) }

\* Merging the accumulators makes one list; extracting the output applies the
\* function once more, to that list.
CombineOutput(accumulators) ==
    combine_pcollection_to_list(<<List(combine_pcollection_to_list(accumulators))>>)

(***************************************************************************)
(* CheckURLReturns200                                                      *)
(***************************************************************************)
Statuses == {200, 301, 404, 500}

Response(status) ==
    [status |-> <<status>>, elapsed |-> <<1>>, exc |-> <<>>, msg |-> <<>>]

Raised(type, msg) ==
    [status |-> <<>>, elapsed |-> <<>>, exc |-> <<type>>, msg |-> <<msg>>]

\* What requests.head(url, timeout=..., headers=...) can do: return a response
\* (redirects are not followed) or raise before there is one.  A URL urlparse
\* rejects is rejected by requests too.
requests_head(url) ==
    IF urlparse(url).raised
    THEN { Raised("InvalidURL", "Failed to parse") }
    ELSE { Response(status) : status \in Statuses }
         \cup { Raised("ConnectionError", "Max retries exceeded") }

\* resp.raise_for_status(): the HTTPError raised, if any
raise_for_status(status) ==
    IF 400 <= status /\ status < 500
    THEN <<[type |-> "HTTPError", msg |-> ToString(status) \o " Client Error"]>>
    ELSE IF 500 <= status /\ status < 600
    THEN <<[type |-> "HTTPError", msg |-> ToString(status) \o " Server Error"]>>
    ELSE <<>>

\* An except clause that names HTTPError alone
CatchesOnlyHTTPError(type) == type = "HTTPError"

\* except Exception as e
Catches(type) == TRUE

\* process(element): the results yielded, given what the HEAD request does.
\* An exception the except clause does not catch leaves process before the yield.
CheckURLReturns200(element, outcome) ==
    LET url_check_result ==
            [url |-> element.url, answerURLs |-> element.value, status |-> <<>>,
             err_type |-> <<>>, err_details |-> <<>>, req_time_secs |-> <<>>]
        failed(r, type, msg) ==
            IF Catches(type)
            THEN <<[r EXCEPT !.err_details = <<msg>>, !.err_type = <<type>>]>>
            ELSE <<>>
    IN  IF outcome.exc # <<>>
        THEN failed(url_check_result, outcome.exc[1], outcome.msg[1])
        ELSE LET got == [url_check_result EXCEPT !.status = outcome.status,
                                                 !.req_time_secs = outcome.elapsed]
                 e   == raise_for_status(outcome.status[1])
             IN  IF e # <<>> THEN failed(got, e[1].type, e[1].msg) ELSE <<got>>

\* A filter on the status instead of the error
IsFailureByStatus(element) == element.status = <<>>

is_failure(element) == element.err_type # <<>>

(***************************************************************************)
(* to_dict and json_encode                                                 *)
(***************************************************************************)
AnswerWithURL_to_dict(a) ==
    [score |-> a.score, answer_id |-> a.answer_id,
     question_title |-> a.question_title, answer_url |-> a.answer_url]

RECURSIVE SumOfIds(_)
SumOfIds(answerURLs) ==
    IF answerURLs = <<>> THEN 0
    ELSE Head(answerURLs).answer_id + SumOfIds(Tail(answerURLs))

\* sum(a.score for a in self.answerURLs)
RECURSIVE SumOfScores(_)
SumOfScores(answerURLs) ==
    IF answerURLs = <<>> THEN 0
    ELSE Head(answerURLs).score + SumOfScores(Tail(answerURLs))

AnswerURLCheckResult_to_dict(r) ==
    [answer_score_sum |-> SumOfScores(r.answerURLs),
     answer_count     |-> Len(r.answerURLs),
     url              |-> r.url,
     answers          |-> [k \in 1..Len(r.answerURLs) |->
                              AnswerWithURL_to_dict(r.answerURLs[k])],
     status           |-> r.status,
     err_type         |-> r.err_type,
     err_details      |-> r.err_details,
     req_time_secs    |-> r.req_time_secs]

\* An ascending sort: reverse=True forgotten
StaysAheadAscending(earlier, later) ==
    earlier.answer_score_sum <= later.answer_score_sum

\* key=lambda x: x["answer_score_sum"], reverse=True, and the sort is stable: an
\* object stays ahead of every later object whose key is not greater.
StaysAhead(earlier, later) == earlier.answer_score_sum >= later.answer_score_sum

\* d put into a sorted list behind the objects that stay ahead of it
RECURSIVE InsertSorted(_, _)
InsertSorted(sorted, d) ==
    IF sorted = <<>> THEN <<d>>
    ELSE IF StaysAhead(Head(sorted), d)
         THEN <<Head(sorted)>> \o InsertSorted(Tail(sorted), d)
    ELSE <<d>> \o sorted

\* list.sort
RECURSIVE SortFrom(_, _)
SortFrom(sorted, dicts) ==
    IF dicts = <<>> THEN sorted
    ELSE SortFrom(InsertSorted(sorted, Head(dicts)), Tail(dicts))

\* json_encode with the sort left out
JsonEncodeUnsorted(check_results) ==
    [k \in 1..Len(check_results) |-> AnswerURLCheckResult_to_dict(check_results[k])]

\* The document json.dumps writes is the array of these objects, in this order.
json_encode(check_results) ==
    SortFrom(<<>>, [k \in 1..Len(check_results) |->
                       AnswerURLCheckResult_to_dict(check_results[k])])

(***************************************************************************)
(* The pipeline built by run()                                             *)
(***************************************************************************)
Views == {"all_responses", "failures"}

Keys(B) == { e.url : e \in BagToSet(B) }

\* How many elements of bag B carry the key url
CountKeyIn(url, B) ==
    BagCardinality(Restrict(B, { e \in BagToSet(B) : e.url = url }))

\* The values paired with the key url
ValuesOf(url) ==
    BagOfAll(LAMBDA e : e.value,
             Restrict(pairs, { e \in BagToSet(pairs) : e.url = url }))

\* A combiner that emits a key's list as soon as the key has a value
FiresOnAnyInput == TRUE

\* CombinePerKey emits a key's list once its input, the output of ExtractURLs
\* over every row, is complete.
CombinePerKeyFires == pending = {}

\* CombineGlobally emits its single list once its input, the output of
\* CheckURLAlive over every group, is complete.
CombineGloballyFires ==
    /\ pending = {}
    /\ Keys(pairs) \subseteq Keys(groups)
    /\ \A url \in Keys(groups) : CountKeyIn(url, heads) >= CountKeyIn(url, groups)

\* The input of each Jsonify branch: responses, or responses | Filter(is_failure)
ViewInput(view) ==
    IF view = "failures"
    THEN Restrict(responses, { r \in BagToSet(responses) : is_failure(r) })
    ELSE responses

Init ==
    /\ input \in { S \in SUBSET Corpus : Cardinality(S) <= MaxRecords }
    /\ pending = { element.answer_id : element \in input }
    /\ pairs = EmptyBag
    /\ groups = EmptyBag
    /\ heads = EmptyBag
    /\ responses = EmptyBag
    /\ docs = [view \in Views |-> <<>>]

\* 'ExtractURLs' >> beam.ParDo(ExtractURLsFromAnswer()), on one row
ExtractURLs(element) ==
    /\ element.answer_id \in pending
    /\ pending' = pending \ {element.answer_id}
    /\ pairs' = pairs (+) SeqToBag(ExtractURLsFromAnswer(element))
    /\ UNCHANGED <<input, groups, heads, responses, docs>>

\* 'GroupByURL' >> beam.CombinePerKey(combine_pcollection_to_list), for one key
GroupByURL(url) ==
    /\ CombinePerKeyFires
    /\ url \in Keys(pairs)
    /\ url \notin Keys(groups)
    /\ \E value \in { CombineOutput(accumulators) :
                          accumulators \in Accumulators(ValuesOf(url)) } :
          groups' = groups (+) SetToBag({[url |-> url, value |-> value]})
    /\ UNCHANGED <<input, pending, pairs, heads, responses, docs>>

\* 'CheckURLAlive' >> beam.ParDo(CheckURLReturns200()), on one group
CheckURLAlive(element) ==
    /\ CountKeyIn(element.url, heads) < CountKeyIn(element.url, groups)
    /\ \E outcome \in requests_head(element.url) :
          /\ heads' = heads (+) SetToBag({[url |-> element.url, outcome |-> outcome]})
          /\ responses' = responses (+) SeqToBag(CheckURLReturns200(element, outcome))
    /\ UNCHANGED <<input, pending, pairs, groups, docs>>

\* JsonifyAnswerURLCheckResults followed by WriteToText, for one branch
Jsonify(view) ==
    /\ CombineGloballyFires
    /\ docs[view] = <<>>
    /\ \E doc \in { json_encode(CombineOutput(accumulators)) :
                        accumulators \in Accumulators(ViewInput(view)) } :
          docs' = [docs EXCEPT ![view] = Append(@, doc)]
    /\ UNCHANGED <<input, pending, pairs, groups, heads, responses>>

JsonifyFailures == Jsonify("failures")

JsonifyAll == Jsonify("all_responses")

Next ==
    \/ \E element \in input : ExtractURLs(element)
    \/ \E url \in Keys(pairs) : GroupByURL(url)
    \/ \E element \in BagToSet(groups) : CheckURLAlive(element)
    \/ JsonifyFailures
    \/ JsonifyAll

Spec == Init /\ [][Next]_vars

Done == \A view \in Views : docs[view] # <<>>

(***************************************************************************)
(* Vocabulary of the properties                                            *)
(***************************************************************************)
AllDoc == docs["all_responses"][1]

FailuresDoc == docs["failures"][1]

\* The result objects written so far to a view
Objects(view) ==
    UNION { { docs[view][i][k] : k \in 1..Len(docs[view][i]) } :
            i \in 1..Len(docs[view]) }

\* The URLs the pattern finds in a body
Matches(body) == { finditer(body, 1)[k] : k \in 1..Len(finditer(body, 1)) }

\* Per row of the corpus: what the pattern finds, what the extractor yields
MatchesOf == [element \in Corpus |-> Matches(element.body)]

YieldOf == [element \in Corpus |-> ExtractURLsFromAnswer(element)]

\* The URLs ExtractURLsFromAnswer emits for a row
EmittedURLs(element) ==
    { YieldOf[element][k].url : k \in 1..Len(YieldOf[element]) }

ExtractedURLs == UNION { EmittedURLs(element) : element \in input }

RecordsWith(url) == { element \in input : url \in EmittedURLs(element) }

RECURSIVE ScoreSum(_)
ScoreSum(S) ==
    IF S = {} THEN 0
    ELSE LET e == CHOOSE x \in S : TRUE IN e.score + ScoreSum(S \ {e})

\* Every row is extracted and every extracted URL has been probed
AllChecked ==
    /\ pending = {}
    /\ \A url \in ExtractedURLs : url \in Keys(heads)

\* The (url, reference) pairs held by a bag of check results
RECURSIVE ReferencesOf(_)
ReferencesOf(B) ==
    IF BagToSet(B) = {} THEN EmptyBag
    ELSE LET r == CHOOSE x \in BagToSet(B) : TRUE
         IN  SeqToBag([k \in 1..Len(r.answerURLs) |->
                          [url |-> r.url, value |-> r.answerURLs[k]]])
             (+) ReferencesOf(B (-) SetToBag({r}))

\* The pairs ExtractURLsFromAnswer emits over a set of rows
RECURSIVE EmittedBag(_)
EmittedBag(S) ==
    IF S = {} THEN EmptyBag
    ELSE LET e == CHOOSE x \in S : TRUE
         IN  SeqToBag(YieldOf[e]) (+) EmittedBag(S \ {e})

\* The host of a URL: its netloc without userinfo and port
HostOf(url) ==
    LET netloc == urlparse(url).netloc
        ats    == { k \in 1..Len(netloc) : netloc[k] = "@" }
        at     == IF ats = {} THEN 0 ELSE CHOOSE k \in ats : \A j \in ats : j <= k
        host   == SubSeqFrom(netloc, at + 1)
    IN  SubSeq(host, 1, FindAny(host, 1, {":"}) - 1)

Sorted(doc) ==
    \A k \in 1..(Len(doc) - 1) : doc[k].answer_score_sum >= doc[k + 1].answer_score_sum

(***************************************************************************)
(* The run that processes rows in the order of their ids, one element at a *)
(* time, and hands every combiner its input in arrival order                *)
(***************************************************************************)
RECURSIVE RowsAscending(_)
RowsAscending(S) ==
    IF S = {} THEN <<>>
    ELSE LET e == CHOOSE x \in S : \A y \in S : x.answer_id <= y.answer_id
         IN  <<e>> \o RowsAscending(S \ {e})

RECURSIVE ExtractAll(_)
ExtractAll(rows) ==
    IF rows = <<>> THEN <<>>
    ELSE YieldOf[Head(rows)] \o ExtractAll(Tail(rows))

ReferencePairs == ExtractAll(RowsAscending(input))

RECURSIVE FirstOccurrences(_, _)
FirstOccurrences(ps, seen) ==
    IF ps = <<>> THEN <<>>
    ELSE IF Head(ps).url \in seen THEN FirstOccurrences(Tail(ps), seen)
    ELSE <<Head(ps).url>> \o FirstOccurrences(Tail(ps), seen \cup {Head(ps).url})

ReferenceGroup(url) ==
    LET ps == SelectSeq(ReferencePairs, LAMBDA p : p.url = url)
    IN  [url |-> url, value |-> [k \in 1..Len(ps) |-> ps[k].value]]

\* The outcome the HEAD request for url had in this run
OutcomeOf(url) == (CHOOSE h \in BagToSet(heads) : h.url = url).outcome

RECURSIVE ReferenceResponses(_)
ReferenceResponses(urls) ==
    IF urls = <<>> THEN <<>>
    ELSE CheckURLReturns200(ReferenceGroup(Head(urls)), OutcomeOf(Head(urls)))
         \o ReferenceResponses(Tail(urls))

ReferenceDoc(view) ==
    LET all == ReferenceResponses(FirstOccurrences(ReferencePairs, {}))
    IN  json_encode(IF view = "failures" THEN SelectSeq(all, is_failure) ELSE all)

\* A result object with its references taken as a bag
Unordered(obj) == [obj EXCEPT !.answers = SeqToBag(@)]

UnorderedBag(doc) == SeqToBag([k \in 1..Len(doc) |-> Unordered(doc[k])])

SumsOf(doc) == [k \in 1..Len(doc) |-> doc[k].answer_score_sum]

(***************************************************************************)
(* Properties                                                              *)
(***************************************************************************)

\* C1: a URL extracted from K >= 1 rows is probed with HEAD exactly once and,
\* when the run is complete, has exactly one result object, whose K references
\* are those K rows and whose answer_score_sum is the sum of their scores.
C1_OneResultOneProbePerURL ==
    /\ \A url \in Keys(heads) : CountKeyIn(url, heads) = 1
    /\ \A url \in Keys(responses) : CountKeyIn(url, responses) = 1
    /\ Done =>
         \A url \in ExtractedURLs :
            LET at == { k \in 1..Len(AllDoc) : AllDoc[k].url = url }
            IN  /\ CountKeyIn(url, heads) = 1
                /\ Cardinality(at) = 1
                /\ \A k \in at :
                      /\ AllDoc[k].answer_count = Cardinality(RecordsWith(url))
                      /\ Len(AllDoc[k].answers) = Cardinality(RecordsWith(url))
                      /\ { AllDoc[k].answers[j].answer_id :
                             j \in 1..Len(AllDoc[k].answers) }
                           = { e.answer_id : e \in RecordsWith(url) }
                      /\ AllDoc[k].answer_score_sum = ScoreSum(RecordsWith(url))

\* A complete run in which one URL was extracted from at least two rows
C1_Witness ==
    /\ Done
    /\ \E url \in ExtractedURLs : Cardinality(RecordsWith(url)) >= 2

\* C2: a check result has err_type set if and only if it is a failure, that
\* is, its status is null or outside 200..299.
C2_ErrTypeIffNot2xx ==
    \A r \in BagToSet(responses) :
        (r.err_type # <<>>) <=> (r.status = <<>> \/ r.status[1] \notin 200..299)

\* C3: no result object of either document has a URL whose host ends with
\* stackoverflow.com, whatever the form of its authority.
C3_NoSelfReferentialURL ==
    \A view \in Views : \A obj \in Objects(view) :
        ~endswith(HostOf(obj.url), ExcludedSuffix)

\* C4: the references held by the check results are references the extractor
\* emitted, each under its own URL, and once every URL is checked they are
\* exactly the extractor's pairs over all rows, as a multiset, however the
\* engine bundled and pre-combined them.
C4_ReferencesPreserved ==
    /\ ReferencesOf(responses) \sqsubseteq pairs
    /\ AllChecked => /\ ReferencesOf(responses) = pairs
                     /\ pairs = EmittedBag(input)

\* Every URL is checked, one result has several references, another has one
C4_Witness ==
    /\ AllChecked
    /\ \E r \in BagToSet(responses) : Len(r.answerURLs) >= 2
    /\ \E r \in BagToSet(responses) : Len(r.answerURLs) = 1

\* C5: the failures document holds exactly the result objects of the
\* all-results document whose err_type is set (none when no probe failed).
C5_FailuresAreTheErrTyped ==
    Done => SeqToBag(FailuresDoc)
              = Restrict(SeqToBag(AllDoc),
                         { AllDoc[k] : k \in { j \in 1..Len(AllDoc) :
                                                 AllDoc[j].err_type # <<>> } })

\* A complete run with both a failed and a successful result
C5_Witness ==
    /\ Done
    /\ FailuresDoc # <<>>
    /\ Len(FailuresDoc) < Len(AllDoc)

\* C6: in each document every result object's answer_score_sum is at least
\* that of the object after it.
C6_DocumentsSortedDescending ==
    \A view \in Views : \A i \in 1..Len(docs[view]) : Sorted(docs[view][i])

\* Both documents hold two objects or more, with different sums, one negative
C6_Witness ==
    /\ Done
    /\ Len(FailuresDoc) >= 2
    /\ \E k \in 1..(Len(AllDoc) - 1) :
          /\ AllDoc[k].answer_score_sum > AllDoc[k + 1].answer_score_sum
          /\ AllDoc[k + 1].answer_score_sum < 0

\* The URLs the properties of the extractor range over
CandidateURLs == UNION { MatchesOf[element] : element \in Corpus } \cup Keys(pairs)

\* C7 as stated: a processed row has emitted exactly one reference for every
\* URL its body contains, and none for any other URL.
C7_OneReferencePerContainedURL ==
    \A element \in input :
        element.answer_id \notin pending =>
            \A url \in CandidateURLs :
                CopiesIn([url |-> url, value |-> AnswerWithURL(element)], pairs)
                  = IF url \in MatchesOf[element] THEN 1 ELSE 0

\* C7 amended: a processed row has emitted exactly one reference for every
\* URL its body contains whose netloc does not end with stackoverflow.com,
\* and none for any other URL, whatever the other rows hold.
C7_OneReferencePerKeptURL ==
    \A element \in input :
        element.answer_id \notin pending =>
            \A url \in CandidateURLs :
                CopiesIn([url |-> url, value |-> AnswerWithURL(element)], pairs)
                  = IF url \in MatchesOf[element] /\ ~SkipsURL(url) THEN 1 ELSE 0

\* Two processed rows share a URL that one of them holds more than once
C7_Witness ==
    \E e1 \in input : \E e2 \in input \ {e1} :
        /\ {e1.answer_id, e2.answer_id} \cap pending = {}
        /\ Len(finditer(e1.body, 1)) > Cardinality(MatchesOf[e1])
        /\ \E url \in MatchesOf[e1] \cap MatchesOf[e2] : ~SkipsURL(url)

\* C8: a HEAD request that raises before a response yields exactly one
\* result for its URL, with err_type the exception's name, err_details its
\* message, status and req_time_secs null; a URL urlparse rejects is emitted
\* all the same; and a complete run holds one result object for every emitted
\* URL, a failure for a rejected one.
C8_ProbeErrorsBecomeResults ==
    /\ \A h \in BagToSet(heads) :
          h.outcome.exc # <<>> =>
              /\ CountKeyIn(h.url, responses) = 1
              /\ \A r \in BagToSet(responses) :
                    r.url = h.url => /\ r.err_type = h.outcome.exc
                                     /\ r.err_details = h.outcome.msg
                                     /\ r.status = <<>>
                                     /\ r.req_time_secs = <<>>
    /\ \A element \in input :
          element.answer_id \notin pending =>
              \A url \in MatchesOf[element] :
                  urlparse(url).raised => url \in Keys(pairs)
    /\ Done =>
          \A url \in Keys(pairs) :
              /\ Cardinality({ k \in 1..Len(AllDoc) : AllDoc[k].url = url }) = 1
              /\ urlparse(url).raised =>
                    \E k \in 1..Len(FailuresDoc) :
                        FailuresDoc[k].url = url /\ FailuresDoc[k].err_type # <<>>

\* A complete run in which a probe raised, a rejected URL was reported and
\* another URL was checked as well
C8_Witness ==
    /\ Done
    /\ Len(AllDoc) >= 2
    /\ \E h \in BagToSet(heads) : h.outcome.exc = <<"ConnectionError">>
    /\ \E k \in 1..Len(AllDoc) : urlparse(AllDoc[k].url).raised

\* C9 as stated: every complete run writes the very documents of the run
\* that handles the same rows and probe outcomes in order of id.
C9_IdenticalDocuments ==
    Done => \A view \in Views : docs[view][1] = ReferenceDoc(view)

\* C9 amended: every complete run writes, in each document, the result
\* objects of that run (same url, status, error fields, count, sum and the
\* same references as a multiset) and the same sequence of answer_score_sum.
C9_IdenticalUpToTies ==
    Done => \A view \in Views :
               /\ UnorderedBag(docs[view][1]) = UnorderedBag(ReferenceDoc(view))
               /\ SumsOf(docs[view][1]) = SumsOf(ReferenceDoc(view))

\* A complete run whose all-results document differs from the ordered run's
C9_Witness ==
    /\ Done
    /\ AllDoc # ReferenceDoc("all_responses")

=============================================================================
